---- MODULE Spec2Model ----
(***************************************************************************)
(* tiny_dnn/util/serialization_helper.h: the registry that maps a layer    *)
(* name to a type-erased loader and saver and a type to its name, the      *)
(* per-type glue (load_layer_impl, save_layer_impl and the registering     *)
(* constructor), and the archive hooks around one serialized layer.        *)
(***************************************************************************)
EXTENDS Integers, Sequences, FiniteSets, TLC

(***************************************************************************)
(* The finite universe the model is explored over.                         *)
(***************************************************************************)
\* The two archive pairs the registration macro instantiates.
Formats == {"json", "binary"}
\* Layer names passed to the registering constructor.
Names == {"a", "b"}
\* Concrete layer types (what typeid(T) tells apart).
Types == {"T1", "T2"}
\* The values a layer's own field can hold.
Values == {0, 1}
\* Objects one output archive may hold before the caller stops saving to it.
MaxSaved == 1
\* Handles the caller holds at once.
MaxHandles == 1

(***************************************************************************)
(* std::map as a function with a finite domain.                            *)
(***************************************************************************)
EmptyMap == [k \in {} |-> k]

\* m[k] = v of std::map: inserts the key or overwrites its value.
MapPut(m, k, v) == [x \in (DOMAIN m) \cup {k} |-> IF x = k THEN v ELSE m[x]]

Range(m) == {m[k] : k \in DOMAIN m}

(***************************************************************************)
(* Archive values.  A field value is a string or an integer; Garbage is    *)
(* what a read or write of bytes that are not the expected object yields.  *)
(***************************************************************************)
StrVal(s) == [ty |-> "str", s |-> s, n |-> 0]
IntVal(n) == [ty |-> "int", s |-> "", n |-> n]
Garbage == [ty |-> "garbage", s |-> "", n |-> 0]

(***************************************************************************)
(* Output archives.  A JSON archive is a tree: `doc` holds the finished    *)
(* members of the root, each a named scalar or a named node with its own   *)
(* members, and `open` says a node has been started and not finished.  A   *)
(* binary archive is flat: names are dropped and `doc` is the sequence of  *)
(* values.                                                                 *)
(***************************************************************************)
NewOutputArchive(f) ==
    [fmt |-> f, live |-> TRUE, doc |-> <<>>,
     open |-> FALSE, name |-> "", members |-> <<>>]

\* The caller has no output archive of format f (live is FALSE).
ClosedOutputArchive(f) == [NewOutputArchive(f) EXCEPT !.live = FALSE]

Scalar(k, v) == [name |-> k, obj |-> FALSE, v |-> v, members |-> <<>>]
Node(k, ms) == [name |-> k, obj |-> TRUE, v |-> Garbage, members |-> ms]
Member(k, v) == [k |-> k, v |-> v]

\* The prologue of oa(make_nvp(name, object)): JSON starts a node.
oa_startNode(oa, name) ==
    IF oa.fmt = "json"
    THEN [oa EXCEPT !.open = TRUE, !.name = name, !.members = <<>>]
    ELSE oa

\* oa(make_nvp(k, v)) for a scalar v.
oa_nvp(oa, k, v) ==
    IF oa.fmt = "json"
    THEN IF oa.open
         THEN [oa EXCEPT !.members = Append(@, Member(k, v))]
         ELSE [oa EXCEPT !.doc = Append(@, Scalar(k, v))]
    ELSE [oa EXCEPT !.doc = Append(@, v)]

\* The epilogue of oa(make_nvp(name, object)): JSON finishes the node.
oa_finishNode(oa) ==
    IF oa.fmt = "json"
    THEN [oa EXCEPT !.doc = Append(@, Node(oa.name, oa.members)),
                    !.open = FALSE, !.name = "", !.members = <<>>]
    ELSE oa

(***************************************************************************)
(* Input archives over a finished document.  JSON keeps a cursor `idx`     *)
(* over the root's members and, inside a node (`depth` = 1), a cursor      *)
(* `midx` over the node's members; a named read searches the current       *)
(* level for the name.  Binary keeps the position `idx` in the stream.     *)
(***************************************************************************)
NewInputArchive(f, doc) ==
    [fmt |-> f, live |-> TRUE, doc |-> doc, idx |-> 1, depth |-> 0, midx |-> 1]

\* The caller has no input archive of format f (live is FALSE).
ClosedInputArchive(f) == [NewInputArchive(f, <<>>) EXCEPT !.live = FALSE]

\* Index of the first element of seq q satisfying the name test, 0 if none.
IndexOfName(q, k, isMember) ==
    LET hits == {i \in 1..Len(q) : IF isMember THEN q[i].k = k ELSE q[i].name = k}
    IN IF hits = {} THEN 0 ELSE CHOOSE i \in hits : \A j \in hits : i <= j

\* JSONInputArchive::startNode: enters the member under the cursor, which
\* must be a node; anything else trips the parser's assertion.
ia_startNode(ia) ==
    IF ia.depth = 0 /\ ia.idx <= Len(ia.doc) /\ ia.doc[ia.idx].obj
    THEN [ok |-> TRUE, ia |-> [ia EXCEPT !.depth = 1, !.midx = 1]]
    ELSE [ok |-> FALSE, ia |-> ia]

\* JSONInputArchive::finishNode: leaves the node and steps the parent's
\* cursor past it.  Only called here inside a node.
ia_finishNode(ia) == [ia EXCEPT !.depth = 0, !.midx = 1, !.idx = @ + 1]

\* ia(make_nvp(k, x)) for a scalar x of kind ty ("str" or "int").
\* JSON: finds k at the current level (the member under the cursor, else a
\* search from the node's start), checks the kind, steps past it.
\* Binary: takes the next value of the stream whatever it is; bytes of the
\* wrong kind read as garbage.
ia_nvp(ia, k, ty) ==
    IF ia.fmt = "json"
    THEN IF ia.depth = 0
         THEN LET i == IndexOfName(ia.doc, k, FALSE)
              IN IF i = 0 \/ ia.doc[i].obj \/ ia.doc[i].v.ty # ty
                 THEN [ok |-> FALSE, v |-> Garbage, ia |-> ia]
                 ELSE [ok |-> TRUE, v |-> ia.doc[i].v,
                       ia |-> [ia EXCEPT !.idx = i + 1]]
         ELSE LET ms == ia.doc[ia.idx].members
                  i == IndexOfName(ms, k, TRUE)
              IN IF i = 0 \/ ms[i].v.ty # ty
                 THEN [ok |-> FALSE, v |-> Garbage, ia |-> ia]
                 ELSE [ok |-> TRUE, v |-> ms[i].v,
                       ia |-> [ia EXCEPT !.midx = i + 1]]
    ELSE IF ia.idx > Len(ia.doc)
         THEN [ok |-> FALSE, v |-> Garbage, ia |-> ia]
         ELSE [ok |-> TRUE,
               v |-> IF ia.doc[ia.idx].ty = ty THEN ia.doc[ia.idx] ELSE Garbage,
               ia |-> [ia EXCEPT !.idx = @ + 1]]

(***************************************************************************)
(* nn_error: the message is kept as its fixed text, the name or type it    *)
(* quotes (subject, "" when it quotes none) and whether it tells the       *)
(* caller to register something.                                           *)
(***************************************************************************)
NoErr == [what |-> "", subject |-> "", guidance |-> FALSE]

\* The message without the concatenated layer_name.
GeneratorNotFound_unnamed(layer_name) ==
    [what |-> "Failed to generate layer. Generator is not found.",
     subject |-> "", guidance |-> TRUE]

GeneratorNotFound(layer_name) ==
    [what |-> "Failed to generate layer. Generator is not found.",
     subject |-> layer_name, guidance |-> TRUE]

TypenameNotRegistered ==
    [what |-> "Typename is not registered", subject |-> "", guidance |-> FALSE]

(***************************************************************************)
(* serialization_helper: the three registrations and the name lookup.  A   *)
(* stored closure is represented by the type T it was instantiated for.    *)
(***************************************************************************)
\* loaders_ = {{name, f}}: assigns a fresh map instead of one entry.
register_loader_replacing(loaders, name, T) == [k \in {name} |-> T]

register_loader(loaders, name, T) == MapPut(loaders, name, T)

\* The saver kept only in a local copy of the map: savers_ stays as it was.
register_saver_dropped(savers, name, T) == savers

\* std::map::insert in place of operator[]: a name already taken keeps the
\* saver it has.
register_saver_insert(savers, name, T) ==
    IF name \in DOMAIN savers THEN savers ELSE MapPut(savers, name, T)

register_saver(savers, name, T) == MapPut(savers, name, T)

\* type_names_.insert({typeid(T), name}): keeps the entry of a key already
\* present.
register_type_insert(type_names, T, name) ==
    IF T \in DOMAIN type_names THEN type_names ELSE MapPut(type_names, T, name)

register_type(type_names, T, name) == MapPut(type_names, T, name)

serialization_name(type_names, index) ==
    IF index \notin DOMAIN type_names
    THEN [outcome |-> "nn_error", err |-> TypenameNotRegistered, ret |-> ""]
    ELSE [outcome |-> "ok", err |-> NoErr, ret |-> type_names[index]]

\* The discriminator taken from typeid(T).name() instead of the registry.
serialize_prolog_typeid(oa, type_names, T) ==
    [outcome |-> "ok", err |-> NoErr, oa |-> oa_nvp(oa, "type", StrVal(T))]

\* Writes the discriminator: a field named "type" holding T's name.
serialize_prolog(oa, type_names, T) ==
    LET nm == serialization_name(type_names, T)
    IN IF nm.outcome # "ok"
       THEN [outcome |-> nm.outcome, err |-> nm.err, oa |-> oa]
       ELSE [outcome |-> "ok", err |-> NoErr,
             oa |-> oa_nvp(oa, "type", StrVal(nm.ret))]

(***************************************************************************)
(* The concrete layer types.  Each has one field of its own, under a key   *)
(* of its own; its serialize writes the discriminator and then the field,  *)
(* its load_and_construct reads the field and runs the constructor.  The   *)
(* constructor accepts every value a live object holds and may throw on    *)
(* anything else.                                                          *)
(***************************************************************************)
FieldKey(T) == IF T = "T1" THEN "x" ELSE "y"

\* A layer object as the caller holds it, and the null pointer.
Objs == {[type |-> T, x |-> IntVal(v)] : T \in Types, v \in Values}
NullObj == [type |-> "", x |-> Garbage]

layer_serialize(T, oa, type_names, obj) ==
    LET p == serialize_prolog(oa, type_names, T)
    IN IF p.outcome # "ok"
       THEN p
       ELSE [p EXCEPT !.oa = oa_nvp(p.oa, FieldKey(T), obj.x)]

layer_load_and_construct(T, ia, ctorThrows) ==
    LET r == ia_nvp(ia, FieldKey(T), "int")
    IN IF ~r.ok THEN [outcome |-> "cereal_exception", x |-> Garbage, ia |-> r.ia]
       ELSE IF ctorThrows /\ r.v = Garbage
       THEN [outcome |-> "ctor_exception", x |-> Garbage, ia |-> r.ia]
       ELSE [outcome |-> "ok", x |-> r.v, ia |-> r.ia]

(***************************************************************************)
(* detail::load_layer_impl and detail::save_layer_impl.                    *)
(***************************************************************************)
\* What load hands back: the object behind the shared handle.
NullHandle == [type |-> "", x |-> Garbage, valid |-> FALSE]

\* The handle's deleter: T's destructor only if *valid, then the storage.
\* The delete moved inside the if: storage of an object that was never
\* constructed is not released.
Deleter_guarded_delete(valid) ==
    [dtors |-> IF valid THEN 1 ELSE 0, frees |-> IF valid THEN 1 ELSE 0]

Deleter(valid) == [dtors |-> IF valid THEN 1 ELSE 0, frees |-> 1]

\* *valid = true moved up, before the load-construction call.
ValidSetBeforeConstruction == TRUE

\* *valid while the load-construction runs.
ValidDuringConstruction == FALSE

\* load_layer_impl without the wrapper's serialize call: the storage is
\* handed out as a T that was never constructed from the archive.
load_layer_impl_unloaded(T, ia, ctorThrows) ==
    [outcome |-> "ok", ia |-> ia, dtors |-> 0, frees |-> 0,
     handle |-> [type |-> T, x |-> Garbage, valid |-> TRUE]]

load_layer_impl(T, ia, ctorThrows) ==
    LET c == layer_load_and_construct(T, ia, ctorThrows)
    IN IF c.outcome # "ok"
       THEN \* the exception unwinds bn: its deleter runs with *valid as it is
            [outcome |-> c.outcome, handle |-> NullHandle, ia |-> c.ia,
             dtors |-> Deleter(ValidDuringConstruction).dtors,
             frees |-> Deleter(ValidDuringConstruction).frees]
       ELSE [outcome |-> "ok", ia |-> c.ia, dtors |-> 0, frees |-> 0,
             handle |-> [type |-> T, x |-> c.x, valid |-> TRUE]]

\* dynamic_cast<const T*>(l)
dynamic_cast(T, l) == IF l.type = T THEN l ELSE NullObj

\* oa(make_nvp(name, *layer)) with layer a T
WriteLayer(T, type_names, oa, name, obj) ==
    LET s == layer_serialize(T, oa_startNode(oa, name), type_names, obj)
    IN oa_finishNode(s.oa)

\* *layer with layer null is undefined: the build may stop before anything
\* is written, stop inside T's serialize after the discriminator went out,
\* or run through it on whatever lies at the null address.
NullDereference(T, type_names, oa, name) ==
    { [outcome |-> "crash", err |-> NoErr, oa |-> oa],
      [outcome |-> "crash", err |-> NoErr,
       oa |-> serialize_prolog(oa_startNode(oa, name), type_names, T).oa],
      [outcome |-> "ok", err |-> NoErr,
       oa |-> WriteLayer(T, type_names, oa, name, [type |-> T, x |-> Garbage])] }

save_layer_impl(T, type_names, oa, layer) ==
    LET nm == serialization_name(type_names, T)
    IN IF nm.outcome # "ok"
       THEN {[outcome |-> nm.outcome, err |-> nm.err, oa |-> oa]}
       ELSE IF layer = NullObj
       THEN NullDereference(T, type_names, oa, nm.ret)
       ELSE {[outcome |-> "ok", err |-> NoErr,
              oa |-> WriteLayer(T, type_names, oa, nm.ret, layer)]}

(***************************************************************************)
(* serialization_helper::load and ::save.                                  *)
(***************************************************************************)
\* load without the find() guard: operator[] default-inserts an empty
\* std::function under the missing name and calling it throws
\* std::bad_function_call.
load_unguarded(loaders, layer_name, ia, ctorThrows) ==
    IF layer_name \notin DOMAIN loaders
    THEN [outcome |-> "bad_function_call", err |-> NoErr,
          loaders |-> MapPut(loaders, layer_name, "empty"),
          handle |-> NullHandle, ia |-> ia, dtors |-> 0, frees |-> 0]
    ELSE LET r == load_layer_impl(loaders[layer_name], ia, ctorThrows)
         IN [outcome |-> r.outcome, err |-> NoErr, loaders |-> loaders,
             handle |-> r.handle, ia |-> r.ia,
             dtors |-> r.dtors, frees |-> r.frees]

load(loaders, layer_name, ia, ctorThrows) ==
    IF layer_name \notin DOMAIN loaders
    THEN [outcome |-> "nn_error", err |-> GeneratorNotFound(layer_name),
          loaders |-> loaders, handle |-> NullHandle, ia |-> ia,
          dtors |-> 0, frees |-> 0]
    ELSE LET r == load_layer_impl(loaders[layer_name], ia, ctorThrows)
         IN [outcome |-> r.outcome, err |-> NoErr, loaders |-> loaders,
             handle |-> r.handle, ia |-> r.ia,
             dtors |-> r.dtors, frees |-> r.frees]

save(savers, type_names, layer_name, oa, l) ==
    IF layer_name \notin DOMAIN savers
    THEN {[outcome |-> "nn_error", err |-> GeneratorNotFound(layer_name),
           savers |-> savers, oa |-> oa]}
    ELSE LET T == savers[layer_name]
         IN {[outcome |-> r.outcome, err |-> r.err, savers |-> savers, oa |-> r.oa]
             : r \in save_layer_impl(T, type_names, oa, dynamic_cast(T, l))}

\* The generic hooks do nothing; the JSON input archive overload enters
\* and leaves a node.
start_loading_layer(ia) ==
    IF ia.fmt = "json" THEN ia_startNode(ia) ELSE [ok |-> TRUE, ia |-> ia]

\* Without the JSONInputArchive overload the generic template is chosen.
finish_loading_layer_generic(ia) == {[outcome |-> "ok", ia |-> ia]}

\* finishNode pops the node stack and steps the parent: with no node
\* entered it pops the root and touches the element before the stack,
\* which is undefined (the build stops, or the archive is left unusable).
finish_loading_layer(ia) ==
    IF ia.fmt # "json" THEN {[outcome |-> "ok", ia |-> ia]}
    ELSE IF ia.depth > 0 THEN {[outcome |-> "ok", ia |-> ia_finishNode(ia)]}
    ELSE {[outcome |-> "crash", ia |-> ia],
          [outcome |-> "ok", ia |-> [ia EXCEPT !.live = FALSE]]}

\* Layer objects per saved layer in a document, for the caller's bound.
ItemsPerLayer(f) == IF f = "json" THEN 1 ELSE 2

\* One function-local static shared by every instantiation, as it would
\* be were the static hoisted out of the class template.
get_instance_shared(f) == "json"

\* serialization_helper<InputArchive, OutputArchive>::get_instance(): the
\* function-local static of the instantiation for archive pair f.
get_instance(f) == f

\* The caller threads that look layers up.
Threads == {"t1", "t2"}

\* A thread that is in no call and has made none.
IdleCall ==
    [pc |-> "idle", op |-> "", fmt |-> "", name |-> "", type |-> "",
     obj |-> NullObj, ctorThrows |-> FALSE,
     ia |-> ClosedInputArchive(""), oa |-> ClosedOutputArchive(""),
     outcome |-> "", err |-> NoErr, ret |-> "", handle |-> NullHandle]

\* No automatic_layer_generator_register constructor is running.
NoRegistration == [pc |-> "idle", fmt |-> "", type |-> "", name |-> ""]

VARIABLES
    active,        \* the serialization_helper instantiations the program uses
    loaders_,      \* per format: layer name -> the type its loader constructs
    savers_,       \* per format: layer name -> the type its saver downcasts to
    type_names_,   \* per format: type -> name
    oa,            \* per format: the caller's output archive
    ia,            \* per format: the caller's input archive
    saved,         \* per format: the (name, object) of each save into the document
    handles,       \* the layers load returned that the caller still holds
    last,          \* the most recent call and how it ended
    registering,   \* the registration a start-up thread is in the middle of
    calls          \* per caller thread: the lookup call it is in, or was last in

vars == <<active, loaders_, savers_, type_names_, oa, ia, saved, handles, last,
          registering, calls>>

\* The threads' state, which the single-threaded operations leave alone.
threads == <<registering, calls>>

registry == <<loaders_, savers_, type_names_>>

\* name: the name passed or returned; type: the type passed (for save, the
\* dynamic type of the layer).
Call(op, outcome, name, type, err, dtors, frees) ==
    [op |-> op, outcome |-> outcome, name |-> name, type |-> type, err |-> err,
     dtors |-> dtors, frees |-> frees]

\* A crash ends the process.
Running == last.outcome # "crash"

\* Before the first registration, with an empty output archive and an
\* input archive over an empty document in the caller's hands.
Init ==
    /\ active \in {{f} : f \in Formats}
    /\ loaders_ = [f \in Formats |-> EmptyMap]
    /\ savers_ = [f \in Formats |-> EmptyMap]
    /\ type_names_ = [f \in Formats |-> EmptyMap]
    /\ oa = [f \in Formats |-> NewOutputArchive(f)]
    /\ ia = [f \in Formats |-> NewInputArchive(f, <<>>)]
    /\ saved = [f \in Formats |-> <<>>]
    /\ handles = <<>>
    /\ last = Call("start", "ok", "", "", NoErr, 0, 0)
    /\ registering = NoRegistration
    /\ calls = [t \in Threads |-> IdleCall]

\* automatic_layer_generator_register<InputArchive, OutputArchive, T>(s)
Register(f, T, s) ==
    /\ Running
    /\ loaders_' = [loaders_ EXCEPT ![get_instance(f)] = register_loader(@, s, T)]
    /\ type_names_' = [type_names_ EXCEPT ![get_instance(f)] = register_type(@, T, s)]
    /\ savers_' = [savers_ EXCEPT ![get_instance(f)] = register_saver(@, s, T)]
    /\ last' = Call("register", "ok", s, T, NoErr, 0, 0)
    /\ UNCHANGED <<threads, active, oa, ia, saved, handles>>

\* get_instance().serialization_name(typeid(T))
NameOf(f, T) ==
    /\ Running
    /\ LET r == serialization_name(type_names_[get_instance(f)], T)
       IN last' = Call("name_of", r.outcome, r.ret, T, r.err, 0, 0)
    /\ UNCHANGED <<threads, active, registry, oa, ia, saved, handles>>

\* get_instance().load(name, ia); the caller keeps the handle it gets.
Load(f, name, ctorThrows) ==
    /\ Running
    /\ ia[f].live
    /\ Len(handles) < MaxHandles
    /\ LET r == load(loaders_[get_instance(f)], name, ia[f], ctorThrows)
       IN /\ loaders_' = [loaders_ EXCEPT ![get_instance(f)] = r.loaders]
          /\ ia' = [ia EXCEPT ![f] = r.ia]
          /\ handles' = IF r.outcome = "ok" THEN Append(handles, r.handle)
                        ELSE handles
          /\ last' = Call("load", r.outcome, name, "", r.err, r.dtors, r.frees)
    /\ UNCHANGED <<threads, active, savers_, type_names_, oa, saved>>

\* get_instance().save(name, oa, &l)
Save(f, name, l) ==
    /\ Running
    /\ oa[f].live
    /\ Len(oa[f].doc) < MaxSaved * ItemsPerLayer(f)
    /\ \E r \in save(savers_[get_instance(f)], type_names_[get_instance(f)], name, oa[f], l) :
          /\ savers_' = [savers_ EXCEPT ![get_instance(f)] = r.savers]
          /\ oa' = [oa EXCEPT ![f] = r.oa]
          /\ saved' = IF r.outcome = "ok"
                      THEN [saved EXCEPT ![f] = Append(@, [name |-> name, obj |-> l])]
                      ELSE saved
          /\ last' = Call("save", r.outcome, name, l.type, r.err, 0, 0)
    /\ UNCHANGED <<threads, active, loaders_, type_names_, ia, handles>>

\* The caller finishes the output archive and opens an input archive on
\* what was written.
OpenInput(f) ==
    /\ Running
    /\ oa[f].live
    /\ ia' = [ia EXCEPT ![f] = NewInputArchive(f, oa[f].doc)]
    /\ oa' = [oa EXCEPT ![f] = ClosedOutputArchive(f)]
    /\ last' = Call("open_input", "ok", "", "", NoErr, 0, 0)
    /\ UNCHANGED <<threads, active, registry, saved, handles>>

\* The caller drops the input archive and starts a new output archive.
NewOutput(f) ==
    /\ Running
    /\ ~oa[f].live
    /\ oa' = [oa EXCEPT ![f] = NewOutputArchive(f)]
    /\ ia' = [ia EXCEPT ![f] = ClosedInputArchive(f)]
    /\ saved' = [saved EXCEPT ![f] = <<>>]
    /\ last' = Call("new_output", "ok", "", "", NoErr, 0, 0)
    /\ UNCHANGED <<threads, active, registry, handles>>

StartLoadingLayer(f) ==
    /\ Running
    /\ ia[f].live
    /\ LET r == start_loading_layer(ia[f])
       IN /\ ia' = [ia EXCEPT ![f] = r.ia]
          /\ last' = Call("start_loading_layer",
                          IF r.ok THEN "ok" ELSE "cereal_exception",
                          "", "", NoErr, 0, 0)
    /\ UNCHANGED <<threads, active, registry, oa, saved, handles>>

FinishLoadingLayer(f) ==
    /\ Running
    /\ ia[f].live
    /\ \E r \in finish_loading_layer(ia[f]) :
          /\ ia' = [ia EXCEPT ![f] = r.ia]
          /\ last' = Call("finish_loading_layer", r.outcome, "", "", NoErr, 0, 0)
    /\ UNCHANGED <<threads, active, registry, oa, saved, handles>>

\* The caller reads the discriminator: ia(make_nvp("type", p)).
ReadTypeTag(f) ==
    /\ Running
    /\ ia[f].live
    /\ LET r == ia_nvp(ia[f], "type", "str")
       IN /\ ia' = [ia EXCEPT ![f] = r.ia]
          /\ last' = Call("read_type", IF r.ok THEN "ok" ELSE "cereal_exception",
                          r.v.s, "", NoErr, 0, 0)
    /\ UNCHANGED <<threads, active, registry, oa, saved, handles>>

\* The caller drops a handle; it is the last one to the object.
Release(i) ==
    /\ Running
    /\ i \in 1..Len(handles)
    /\ handles' = [j \in 1..(Len(handles) - 1) |->
                      IF j < i THEN handles[j] ELSE handles[j + 1]]
    /\ last' = Call("release", "ok", "", "", NoErr,
                    Deleter(handles[i].valid).dtors,
                    Deleter(handles[i].valid).frees)
    /\ UNCHANGED <<threads, active, registry, oa, ia, saved>>

RegisterStep == \E f \in active, T \in Types, s \in Names : Register(f, T, s)
NameOfStep == \E f \in active, T \in Types : NameOf(f, T)
LoadStep == \E f \in active, n \in Names, c \in BOOLEAN : Load(f, n, c)
SaveStep == \E f \in active, n \in Names, l \in Objs : Save(f, n, l)
OpenInputStep == \E f \in active : OpenInput(f)
NewOutputStep == \E f \in active : NewOutput(f)
StartLoadingLayerStep == \E f \in active : StartLoadingLayer(f)
ReadTypeTagStep == \E f \in active : ReadTypeTag(f)
FinishLoadingLayerStep == \E f \in active : FinishLoadingLayer(f)
ReleaseStep == \E i \in 1..MaxHandles : Release(i)

(***************************************************************************)
(* The registry under any order of registrations and calls.                *)
(***************************************************************************)
Next == RegisterStep \/ NameOfStep \/ LoadStep \/ SaveStep

Spec == Init /\ [][Next]_vars

(***************************************************************************)
(* A session after start-up: the registrations ran during static           *)
(* initialisation, each type once and under a name of its own, and the     *)
(* caller now writes layers to an archive and reads them back.             *)
(***************************************************************************)
RECURSIVE RegisterAll(_, _)
RegisterAll(reg, rs) ==
    IF rs = <<>> THEN reg
    ELSE RegisterAll(
           [loaders |-> register_loader(reg.loaders, rs[1][2], rs[1][1]),
            type_names |-> register_type(reg.type_names, rs[1][1], rs[1][2]),
            savers |-> register_saver(reg.savers, rs[1][2], rs[1][1])],
           Tail(rs))

StartupRegistrations ==
    {<<>>} \cup {<<r>> : r \in Types \X Names}
           \cup {<<r, q>> : r \in Types \X Names, q \in Types \X Names}

WellFormed(rs) ==
    \A i, j \in 1..Len(rs) : i # j => rs[i][1] # rs[j][1] /\ rs[i][2] # rs[j][2]

InitSession ==
    \E f \in Formats, rs \in {q \in StartupRegistrations : WellFormed(q)} :
       LET reg == RegisterAll([loaders |-> EmptyMap, type_names |-> EmptyMap,
                               savers |-> EmptyMap], rs)
       IN /\ active = {f}
          /\ loaders_ = [g \in Formats |-> IF g = f THEN reg.loaders ELSE EmptyMap]
          /\ savers_ = [g \in Formats |-> IF g = f THEN reg.savers ELSE EmptyMap]
          /\ type_names_ = [g \in Formats |-> IF g = f THEN reg.type_names ELSE EmptyMap]
          /\ oa = [g \in Formats |-> NewOutputArchive(g)]
          /\ ia = [g \in Formats |-> NewInputArchive(g, <<>>)]
          /\ saved = [g \in Formats |-> <<>>]
          /\ handles = <<>>
          /\ last = Call("start", "ok", "", "", NoErr, 0, 0)
          /\ registering = NoRegistration
          /\ calls = [t \in Threads |-> IdleCall]

NextSession ==
    \/ NameOfStep \/ SaveStep \/ OpenInputStep \/ NewOutputStep
    \/ StartLoadingLayerStep \/ ReadTypeTagStep \/ LoadStep
    \/ FinishLoadingLayerStep \/ ReleaseStep

SpecSession == InitSession /\ [][NextSession]_vars

(***************************************************************************)
(* A program that uses both archive pairs: the registration macro body     *)
(* defines one register object per pair, JSON first, and single            *)
(* registrations and calls go to either instantiation.                     *)
(***************************************************************************)
\* CNN_REGISTER_LAYER_SERIALIZER_BODY(T, s, _): the two static objects'
\* constructors, in declaration order.
RegisterBody(T, s) ==
    /\ Running
    /\ LET j == get_instance("json")
           b == get_instance("binary")
           l1 == [loaders_ EXCEPT ![j] = register_loader(@, s, T)]
           t1 == [type_names_ EXCEPT ![j] = register_type(@, T, s)]
           s1 == [savers_ EXCEPT ![j] = register_saver(@, s, T)]
       IN /\ loaders_' = [l1 EXCEPT ![b] = register_loader(@, s, T)]
          /\ type_names_' = [t1 EXCEPT ![b] = register_type(@, T, s)]
          /\ savers_' = [s1 EXCEPT ![b] = register_saver(@, s, T)]
    /\ last' = Call("register_body", "ok", s, T, NoErr, 0, 0)
    /\ UNCHANGED <<threads, active, oa, ia, saved, handles>>

\* The layer type this program registers.
MacroTypes == {"T1"}

\* Layers the caller has written so far, over both output archives.
LayersSaved ==
    Len(oa["json"].doc) \div ItemsPerLayer("json")
    + Len(oa["binary"].doc) \div ItemsPerLayer("binary")

RegisterBodyStep == \E T \in MacroTypes, s \in Names : RegisterBody(T, s)
RegisterOneStep == \E f \in active, T \in MacroTypes, s \in Names : Register(f, T, s)
NameOfOneStep == \E f \in active, T \in MacroTypes : NameOf(f, T)
SaveSomeStep == LayersSaved < MaxSaved /\ SaveStep

InitBoth ==
    /\ active = Formats
    /\ loaders_ = [f \in Formats |-> EmptyMap]
    /\ savers_ = [f \in Formats |-> EmptyMap]
    /\ type_names_ = [f \in Formats |-> EmptyMap]
    /\ oa = [f \in Formats |-> NewOutputArchive(f)]
    /\ ia = [f \in Formats |-> NewInputArchive(f, <<>>)]
    /\ saved = [f \in Formats |-> <<>>]
    /\ handles = <<>>
    /\ last = Call("start", "ok", "", "", NoErr, 0, 0)
    /\ registering = NoRegistration
    /\ calls = [t \in Threads |-> IdleCall]

NextBoth ==
    RegisterBodyStep \/ RegisterOneStep \/ NameOfOneStep \/ LoadStep \/ SaveSomeStep

SpecBoth == InitBoth /\ [][NextBoth]_vars

(***************************************************************************)
(* Caller threads.  load, save and serialization_name each look the key    *)
(* up with find() and then fetch the entry (operator[] or at()) and use    *)
(* it; a thread can be preempted between the two.  The registering         *)
(* constructor makes its three insertions one after another, and no lock   *)
(* orders any of this.                                                     *)
(***************************************************************************)
\* load's guard left out: every name counts as found.
loaders_find_unchecked(loaders, layer_name) == TRUE

\* loaders_.find(layer_name) != loaders_.end()
loaders_find(loaders, layer_name) == layer_name \in DOMAIN loaders

\* loaders_[layer_name](&ar): operator[] default-inserts an empty
\* std::function under a missing name, and calling an empty std::function
\* throws std::bad_function_call.
loaders_call(loaders, layer_name, ar, ctorThrows) ==
    LET m == IF layer_name \in DOMAIN loaders THEN loaders
             ELSE MapPut(loaders, layer_name, "empty")
    IN IF m[layer_name] = "empty"
       THEN [outcome |-> "bad_function_call", err |-> NoErr, loaders |-> m,
             handle |-> NullHandle, ia |-> ar]
       ELSE LET r == load_layer_impl(m[layer_name], ar, ctorThrows)
            IN [outcome |-> r.outcome, err |-> NoErr, loaders |-> m,
                handle |-> r.handle, ia |-> r.ia]

\* savers_.find(layer_name) != savers_.end()
savers_find(savers, layer_name) == layer_name \in DOMAIN savers

\* savers_[layer_name](&ar, l)
savers_call(savers, type_names, layer_name, ar, l) ==
    LET m == IF layer_name \in DOMAIN savers THEN savers
             ELSE MapPut(savers, layer_name, "empty")
    IN IF m[layer_name] = "empty"
       THEN {[outcome |-> "bad_function_call", err |-> NoErr, savers |-> m,
              oa |-> ar]}
       ELSE {[outcome |-> r.outcome, err |-> r.err, savers |-> m, oa |-> r.oa]
             : r \in save_layer_impl(m[layer_name], type_names, ar,
                                     dynamic_cast(m[layer_name], l))}

\* type_names_.find(index) != type_names_.end()
type_names_find(type_names, index) == index \in DOMAIN type_names

\* type_names_.at(index)
type_names_at(type_names, index) ==
    IF index \in DOMAIN type_names
    THEN [outcome |-> "ok", ret |-> type_names[index]]
    ELSE [outcome |-> "out_of_range", ret |-> ""]

\* The registering constructor is inside its insertion into map m of the
\* registry for f: a thread reading that map now races with the write.
InsertInProgress(f, m) ==
    registering.pc = m /\ registering.fmt = get_instance(f)

\* What a read of the map can find: the map as it is, and during a racing
\* insertion also the map with the new entry already linked in.
LoadersSeen(f) ==
    {loaders_[get_instance(f)]} \cup
    IF InsertInProgress(f, "loaders_")
    THEN {register_loader(loaders_[get_instance(f)], registering.name, registering.type)}
    ELSE {}

SaversSeen(f) ==
    {savers_[get_instance(f)]} \cup
    IF InsertInProgress(f, "savers_")
    THEN {register_saver(savers_[get_instance(f)], registering.name, registering.type)}
    ELSE {}

TypeNamesSeen(f) ==
    {type_names_[get_instance(f)]} \cup
    IF InsertInProgress(f, "type_names_")
    THEN {register_type(type_names_[get_instance(f)], registering.type, registering.name)}
    ELSE {}

\* An input archive a caller has brought to the fields of a layer written
\* with the registry as it is: node entered, discriminator read.
PositionedInput(f, obj) ==
    LET tn == type_names_[get_instance(f)]
        w == WriteLayer(obj.type, tn, NewOutputArchive(f), tn[obj.type], obj)
        n == start_loading_layer(NewInputArchive(f, w.doc)).ia
    IN ia_nvp(n, "type", "str").ia

\* The input archives a thread may call load with.
ThreadInputs(f) ==
    {NewInputArchive(f, <<>>)} \cup
    {PositionedInput(f, o) :
        o \in {q \in Objs : q.type \in DOMAIN type_names_[get_instance(f)]
                            /\ q.x = IntVal(1)}}

\* Thread t is free to make a call.
CanCall(t) == Running /\ calls[t].pc # "found"

\* The call of thread t ends: it returns or throws, or brings the process
\* down.
Ended(t, c, outcome, err) ==
    /\ calls' = [calls EXCEPT ![t] = [c EXCEPT !.pc = "done", !.outcome = outcome,
                                               !.err = err]]
    /\ last' = IF outcome = "crash"
               THEN Call(c.op, "crash", c.name, c.type, NoErr, 0, 0)
               ELSE last

\* A read that races with the insertion tears: the process goes down.
Torn(t, c, f, m) == InsertInProgress(f, m) /\ Ended(t, c, "crash", NoErr)

\* load(layer_name, ar) up to the guard (lines 64-67).
BeginLoad(t, f, layer_name, input) ==
    /\ CanCall(t)
    /\ LET c == [IdleCall EXCEPT !.op = "load", !.fmt = f, !.name = layer_name,
                                 !.ia = input, !.oa = ClosedOutputArchive(f)]
       IN \/ \E seen \in LoadersSeen(f) :
               IF loaders_find(seen, layer_name)
               THEN calls' = [calls EXCEPT ![t] = [c EXCEPT !.pc = "found"]]
                    /\ last' = last
               ELSE Ended(t, c, "nn_error", GeneratorNotFound(layer_name))
          \/ Torn(t, c, f, "loaders_")
    /\ UNCHANGED <<active, registry, oa, ia, saved, handles, registering>>

\* save(layer_name, ar, l) up to the guard (lines 73-76).
BeginSave(t, f, layer_name, l) ==
    /\ CanCall(t)
    /\ LET c == [IdleCall EXCEPT !.op = "save", !.fmt = f, !.name = layer_name,
                                 !.type = l.type, !.obj = l,
                                 !.ia = ClosedInputArchive(f),
                                 !.oa = NewOutputArchive(f)]
       IN \/ \E seen \in SaversSeen(f) :
               IF savers_find(seen, layer_name)
               THEN calls' = [calls EXCEPT ![t] = [c EXCEPT !.pc = "found"]]
                    /\ last' = last
               ELSE Ended(t, c, "nn_error", GeneratorNotFound(layer_name))
          \/ Torn(t, c, f, "savers_")
    /\ UNCHANGED <<active, registry, oa, ia, saved, handles, registering>>

\* serialization_name(index) up to the guard (lines 82-84).
BeginNameOf(t, f, index) ==
    /\ CanCall(t)
    /\ LET c == [IdleCall EXCEPT !.op = "name_of", !.fmt = f, !.type = index,
                                 !.ia = ClosedInputArchive(f),
                                 !.oa = ClosedOutputArchive(f)]
       IN \/ \E seen \in TypeNamesSeen(f) :
               IF type_names_find(seen, index)
               THEN calls' = [calls EXCEPT ![t] = [c EXCEPT !.pc = "found"]]
                    /\ last' = last
               ELSE Ended(t, c, "nn_error", TypenameNotRegistered)
          \/ Torn(t, c, f, "type_names_")
    /\ UNCHANGED <<active, registry, oa, ia, saved, handles, registering>>

\* The rest of load (line 69).
FinishLoad(t) ==
    LET c == calls[t]
        f == c.fmt
    IN /\ Running /\ c.pc = "found" /\ c.op = "load"
       /\ \/ \E seen \in LoadersSeen(f) :
               LET r == loaders_call(seen, c.name, c.ia, c.ctorThrows)
               IN /\ Ended(t, [c EXCEPT !.ia = r.ia, !.handle = r.handle],
                           r.outcome, r.err)
                  /\ loaders_' = IF r.loaders = seen THEN loaders_
                                 ELSE [loaders_ EXCEPT ![get_instance(f)] = r.loaders]
          \/ Torn(t, c, f, "loaders_") /\ loaders_' = loaders_
       /\ UNCHANGED <<active, savers_, type_names_, oa, ia, saved, handles,
                      registering>>

\* The rest of save (line 78).
FinishSave(t) ==
    LET c == calls[t]
        f == c.fmt
    IN /\ Running /\ c.pc = "found" /\ c.op = "save"
       /\ \/ \E seen \in SaversSeen(f), names \in TypeNamesSeen(f) :
               \E r \in savers_call(seen, names, c.name, c.oa, c.obj) :
                  /\ Ended(t, [c EXCEPT !.oa = r.oa], r.outcome, r.err)
                  /\ savers_' = IF r.savers = seen THEN savers_
                                ELSE [savers_ EXCEPT ![get_instance(f)] = r.savers]
          \/ Torn(t, c, f, "savers_") /\ savers_' = savers_
          \/ Torn(t, c, f, "type_names_") /\ savers_' = savers_
       /\ UNCHANGED <<active, loaders_, type_names_, oa, ia, saved, handles,
                      registering>>

\* The rest of serialization_name (line 85).
FinishNameOf(t) ==
    LET c == calls[t]
        f == c.fmt
    IN /\ Running /\ c.pc = "found" /\ c.op = "name_of"
       /\ \/ \E seen \in TypeNamesSeen(f) :
               LET r == type_names_at(seen, c.type)
               IN Ended(t, [c EXCEPT !.ret = r.ret], r.outcome, NoErr)
          \/ Torn(t, c, f, "type_names_")
       /\ UNCHANGED <<active, registry, oa, ia, saved, handles, registering>>

\* A thread enters automatic_layer_generator_register<.., T>(s) (line 137).
BeginRegistration(f, T, s) ==
    /\ Running
    /\ registering.pc = "idle"
    /\ registering' = [pc |-> "loaders_", fmt |-> get_instance(f), type |-> T,
                       name |-> s]
    /\ UNCHANGED <<active, registry, oa, ia, saved, handles, last, calls>>

\* register_loader(s, load_layer_impl<InputArchive, T>) (line 138)
InsertLoader ==
    /\ Running
    /\ registering.pc = "loaders_"
    /\ loaders_' = [loaders_ EXCEPT ![registering.fmt] =
                       register_loader(@, registering.name, registering.type)]
    /\ registering' = [registering EXCEPT !.pc = "type_names_"]
    /\ UNCHANGED <<active, savers_, type_names_, oa, ia, saved, handles, last, calls>>

\* register_type<T>(s) (line 139)
InsertType ==
    /\ Running
    /\ registering.pc = "type_names_"
    /\ type_names_' = [type_names_ EXCEPT ![registering.fmt] =
                          register_type(@, registering.type, registering.name)]
    /\ registering' = [registering EXCEPT !.pc = "savers_"]
    /\ UNCHANGED <<active, loaders_, savers_, oa, ia, saved, handles, last, calls>>

\* register_saver<T>(s, save_layer_impl<OutputArchive, T>) (line 140); the
\* constructor returns.
InsertSaver ==
    /\ Running
    /\ registering.pc = "savers_"
    /\ savers_' = [savers_ EXCEPT ![registering.fmt] =
                      register_saver(@, registering.name, registering.type)]
    /\ registering' = [registering EXCEPT !.pc = "done"]
    /\ UNCHANGED <<active, loaders_, type_names_, oa, ia, saved, handles, last, calls>>

\* Thread t takes a step of a call.
LookupStep(t) ==
    \/ \E f \in active, n \in Names :
          \E input \in ThreadInputs(f) : BeginLoad(t, f, n, input)
    \/ \E f \in active, n \in Names, l \in Objs : BeginSave(t, f, n, l)
    \/ \E f \in active, T \in Types : BeginNameOf(t, f, T)
    \/ FinishLoad(t)
    \/ FinishSave(t)
    \/ FinishNameOf(t)

\* Start-up is over: the threads call load, save and serialization_name.
NextReaders == \E t \in Threads : LookupStep(t)

SpecReaders == InitSession /\ [][NextReaders]_vars

\* A late registration runs on thread t2 while thread t1 is calling.
NextRacing ==
    \/ LookupStep("t1")
    \/ \E f \in active, T \in Types, s \in Names : BeginRegistration(f, T, s)
    \/ InsertLoader
    \/ InsertType
    \/ InsertSaver

SpecRacing == InitSession /\ [][NextRacing]_vars

(***************************************************************************)
(* Properties.                                                             *)
(***************************************************************************)
\* The one instantiation the behaviour runs.
TheFormat == CHOOSE f \in Formats : f \in active

\* C1: a load with a name that is no key of loaders_, a save with a name
\* that is no key of savers_ and a serialization_name with a type that is
\* no key of type_names_ each end in nn_error, and the call leaves the
\* three maps and both archives as they were.
C1_MissingRegistrationFails ==
    [][LET f == TheFormat
       IN \/ last'.op = "load" /\ last'.name \notin DOMAIN loaders_[f]
          \/ last'.op = "save" /\ last'.name \notin DOMAIN savers_[f]
          \/ last'.op = "name_of" /\ last'.type \notin DOMAIN type_names_[f]
          => /\ last'.outcome = "nn_error"
             /\ UNCHANGED <<registry, oa, ia, handles>>]_vars

\* A save under an unregistered name has failed while another name is
\* registered.
C1_Witness ==
    /\ last.op = "save" /\ last.outcome = "nn_error"
    /\ last.name \notin DOMAIN savers_[TheFormat]
    /\ DOMAIN savers_[TheFormat] # {}

\* C2: every name that is a key of loaders_ is a key of savers_ and is in
\* the range of type_names_, whatever registrations have completed.
C2_LoaderNamesAreSavedAndNamed ==
    \A f \in Formats : \A n \in DOMAIN loaders_[f] :
        n \in DOMAIN savers_[f] /\ n \in Range(type_names_[f])

\* C3: a save under name_of(A), A's saver stored there, with a layer whose
\* dynamic type is a registered B other than A (under a name of its own)
\* returns normally and leaves the archive as it was before the call.
C3_MismatchedSaveIsNoOp ==
    [][LET f == TheFormat
           A == savers_[f][last'.name]
       IN /\ last'.op = "save"
          /\ last'.name \in DOMAIN savers_[f]
          /\ A \in DOMAIN type_names_[f]
          /\ type_names_[f][A] = last'.name
          /\ last'.type \in DOMAIN type_names_[f]
          /\ last'.type # A
          /\ type_names_[f][last'.type] # last'.name
          => last'.outcome = "ok" /\ oa' = oa]_vars

\* C4: no type still maps to a name whose loader and saver belong to
\* another type: once T2 is registered under T1's name n, n resolves to T2
\* alone through load, save and serialization_name.
C4_LastRegistrationOwnsName ==
    \A f \in Formats : \A T \in DOMAIN type_names_[f] :
        LET n == type_names_[f][T]
        IN n \in DOMAIN loaders_[f] /\ n \in DOMAIN savers_[f]
           => loaders_[f][n] = T /\ savers_[f][n] = T

\* C5: a load whose load-construction fails after the storage was
\* allocated runs no destructor; the deleter only releases the storage,
\* and no handle reaches the caller.
C5_FailedConstructionNotDestroyed ==
    last.op = "load" /\ last.outcome \in {"cereal_exception", "ctor_exception"}
    => last.dtors = 0 /\ last.frees = 1

\* T's constructor has thrown inside load_layer_impl.
C5_Witness ==
    last.op = "load" /\ last.outcome = "ctor_exception" /\ last.frees = 1

\* The saved layer the input archive is positioned in: the node the
\* cursor is in (JSON), or the layer whose values the position is among
\* (binary: two values a layer).
LayerUnderCursor(a) == IF a.fmt = "json" THEN a.idx ELSE (a.idx + 1) \div 2

C7_EveryLookupErrorNamesAndGuides ==
    last.outcome = "nn_error"
    => /\ last.err.guidance
       /\ last.op \in {"load", "save"} => last.err.subject = last.name
       /\ last.op = "name_of" => last.err.subject = last.type

\* C7 amended: the nn_error of load and of save quotes the offending name
\* and tells the caller to register a generator; the nn_error of
\* serialization_name is the fixed text alone.
C7_LoadSaveErrorsNameAndGuide ==
    last.outcome = "nn_error"
    => \/ /\ last.op \in {"load", "save"}
          /\ last.err.subject = last.name
          /\ last.err.guidance
       \/ /\ last.op = "name_of"
          /\ last.err = TypenameNotRegistered

\* A load under an unregistered name has thrown, quoting the name.
C7_Witness ==
    /\ last.op = "load" /\ last.outcome = "nn_error"
    /\ last.name \in Names /\ last.err.subject = last.name

\* C8: no step removes a key from loaders_, savers_ or type_names_, so a
\* name or type registered once never meets nn_error again in load, save or
\* serialization_name.
C8_RegistrationIsPermanent ==
    [][/\ \A f \in Formats :
            /\ DOMAIN loaders_[f] \subseteq DOMAIN loaders_'[f]
            /\ DOMAIN savers_[f] \subseteq DOMAIN savers_'[f]
            /\ DOMAIN type_names_[f] \subseteq DOMAIN type_names_'[f]
       /\ LET f == TheFormat
          IN \/ last'.op = "load" /\ last'.name \in DOMAIN loaders_[f]
             \/ last'.op = "save" /\ last'.name \in DOMAIN savers_[f]
             \/ last'.op = "name_of" /\ last'.type \in DOMAIN type_names_[f]
             => last'.outcome # "nn_error"]_vars

\* With both names and both types registered, a later name lookup succeeds.
C8_Witness ==
    /\ last.op = "name_of" /\ last.outcome = "ok"
    /\ DOMAIN loaders_[TheFormat] = Names
    /\ DOMAIN type_names_[TheFormat] = Types

\* C9: a save of a layer whose dynamic type is the saver's type writes one
\* object that carries exactly one field named "type", holding the type's
\* registered name, ahead of the type's own field (binary archives drop
\* field names: the name string is the object's first value).
C9_OneTypeFieldFirst ==
    LET f == TheFormat
        d == oa[f].doc
    IN /\ last.op = "save" /\ last.outcome = "ok"
       /\ last.name \in DOMAIN savers_[f]
       /\ savers_[f][last.name] = last.type
       => LET tag == StrVal(type_names_[f][last.type])
          IN IF f = "json"
             THEN /\ Len(d) >= 1 /\ d[Len(d)].obj
                  /\ LET ms == d[Len(d)].members
                     IN /\ {i \in 1..Len(ms) : ms[i].k = "type"} = {1}
                        /\ ms[1].v = tag
                        /\ Len(ms) = 2 /\ ms[2].k = FieldKey(last.type)
             ELSE /\ Len(d) >= 2
                  /\ d[Len(d) - 1] = tag
                  /\ d[Len(d)].ty = "int"

\* A T2 layer has been saved under T2's name.
C9_Witness ==
    /\ last.op = "save" /\ last.outcome = "ok" /\ last.type = "T2"
    /\ last.name \in DOMAIN savers_[TheFormat]
    /\ savers_[TheFormat][last.name] = "T2"
    /\ oa[TheFormat].doc # <<>>

\* C10: a registration of T under n makes serialization_name(T) return n
\* and leaves serialization_name(U) as it was for every other type U; no
\* other step changes what serialization_name returns, and a lookup returns
\* the entry of type_names_.
C10_NameOfIsLastRegistration ==
    [][LET f == TheFormat
       IN /\ last'.op = "register"
             => /\ serialization_name(type_names_'[f], last'.type).outcome = "ok"
                /\ serialization_name(type_names_'[f], last'.type).ret = last'.name
                /\ \A U \in Types \ {last'.type} :
                      serialization_name(type_names_'[f], U)
                        = serialization_name(type_names_[f], U)
          /\ last'.op # "register"
             => \A U \in Types :
                   serialization_name(type_names_'[f], U)
                     = serialization_name(type_names_[f], U)
          /\ last'.op = "name_of" /\ last'.outcome = "ok"
             => last'.name = type_names_[f][last'.type]]_vars

\* T1 was registered under one name and later under the other (its first
\* loader is still stored), T2 is registered too, and a lookup of T1 has
\* returned the later name.
C10_Witness ==
    LET f == TheFormat
    IN /\ last.op = "name_of" /\ last.outcome = "ok" /\ last.type = "T1"
       /\ DOMAIN type_names_[f] = Types
       /\ last.name = type_names_[f]["T1"]
       /\ \E n \in DOMAIN loaders_[f] :
             loaders_[f][n] = "T1" /\ n # type_names_[f]["T1"]

\* C11: each archive pair has a registry of its own: a registration, load,
\* save or name_of on the registry of one pair leaves the three maps of the
\* other pair as they were, and the registration macro body puts the type
\* under the same name into the three maps of both.
C11_RegistriesIndependent ==
    [][/\ \A f \in Formats :
            (\/ \E T \in Types, s \in Names : Register(f, T, s)
             \/ \E T \in Types : NameOf(f, T)
             \/ \E n \in Names, c \in BOOLEAN : Load(f, n, c)
             \/ \E n \in Names, l \in Objs : Save(f, n, l))
            => \A g \in Formats \ {f} :
                  /\ loaders_'[g] = loaders_[g]
                  /\ savers_'[g] = savers_[g]
                  /\ type_names_'[g] = type_names_[g]
       /\ \A T \in Types, s \in Names :
            RegisterBody(T, s)
            => \A f \in Formats :
                  /\ loaders_'[f] = MapPut(loaders_[f], s, T)
                  /\ savers_'[f] = MapPut(savers_[f], s, T)
                  /\ type_names_'[f] = MapPut(type_names_[f], T, s)]_vars

\* After the macro body registered T1 for both pairs, a registration for
\* one pair alone has moved T1 to another name there and not in the other.
C11_Witness ==
    /\ last.op = "register"
    /\ \A f \in Formats : "T1" \in DOMAIN type_names_[f]
    /\ type_names_["json"]["T1"] # type_names_["binary"]["T1"]
    /\ DOMAIN loaders_["json"] # DOMAIN loaders_["binary"]

\* C12: load, save and serialization_name leave loaders_, savers_ and
\* type_names_ as they were, whether they return or throw, and with the
\* registrations over every call that threads make concurrently ends as
\* the same call does when run alone on the registry: same outcome, same
\* error, same returned name or handle, same archive contents.
C12_LookupsReadOnlySerializable ==
    [][\A t \in Threads :
          calls'[t] # calls[t]
          => /\ registry' = registry
             /\ calls'[t].pc = "done"
                => LET c == calls'[t]
                       f == get_instance(c.fmt)
                       b == IF calls[t].pc = "found" THEN calls[t] ELSE c
                   IN CASE c.op = "load" ->
                             LET r == load(loaders_[f], c.name, b.ia, c.ctorThrows)
                             IN /\ c.outcome = r.outcome /\ c.err = r.err
                                /\ c.handle = r.handle /\ c.ia = r.ia
                        [] c.op = "save" ->
                             \E r \in save(savers_[f], type_names_[f], c.name,
                                           b.oa, c.obj) :
                                /\ c.outcome = r.outcome /\ c.err = r.err
                                /\ c.oa = r.oa
                        [] c.op = "name_of" ->
                             LET r == serialization_name(type_names_[f], c.type)
                             IN /\ c.outcome = r.outcome /\ c.err = r.err
                                /\ c.ret = r.ret]_vars

\* Thread t1's save has written its layer and thread t2's load has handed
\* back a layer, while the registry still holds what start-up put there.
C12_Witness ==
    /\ calls["t1"].pc = "done" /\ calls["t1"].op = "save"
    /\ calls["t1"].outcome = "ok" /\ calls["t1"].oa.doc # <<>>
    /\ calls["t2"].pc = "done" /\ calls["t2"].op = "load"
    /\ calls["t2"].outcome = "ok" /\ calls["t2"].handle.valid
    /\ DOMAIN loaders_[TheFormat] = Names

\* A lookup of thread t has just failed with nn_error although the loader
\* side of the registry answers for the same registration: save(n) fails
\* while n is in loaders_, or serialization_name(T) fails while a loader
\* of T is stored.
HalfRegisteredSeen(t) ==
    LET c == calls'[t]
        f == get_instance(c.fmt)
    IN /\ calls'[t] # calls[t]
       /\ c.pc = "done" /\ c.outcome = "nn_error"
       /\ \/ c.op = "save" /\ c.name \in DOMAIN loaders_[f]
          \/ c.op = "name_of" /\ c.type \in Range(loaders_[f])

\* C13 as stated: a lookup interleaved with the registration of T under n
\* sees none or all of the three insertions: no save(n) or
\* serialization_name(T) fails with nn_error while load(n) finds n.
C13_RegistrationAtomicForLookups ==
    [][\A t \in Threads : ~HalfRegisteredSeen(t)]_vars

\* C13 amended: a lookup made while no registering constructor is running,
\* before it was entered or after it returned, sees none or all of the
\* three insertions.
C13_RegistrationWholeOutsideConstructor ==
    [][registering.pc \in {"idle", "done"}
       => \A t \in Threads : ~HalfRegisteredSeen(t)]_vars

\* The constructor has returned, and thread t1's save with the name and a
\* layer of the type it registered has written the layer.
C13_Witness ==
    /\ registering.pc = "done"
    /\ calls["t1"].pc = "done" /\ calls["t1"].op = "save"
    /\ calls["t1"].outcome = "ok"
    /\ calls["t1"].name = registering.name
    /\ calls["t1"].type = registering.type
    /\ calls["t1"].oa.doc # <<>>

\* C14: after any completed registrations, for every registered type T the
\* saver stored under serialization_name(T) downcasts to T, and a save
\* under serialization_name(T) of a layer that is a T writes that layer.
C14_NameOfLeadsToOwnSaver ==
    [][LET f == TheFormat
           n == last'.name
           T == last'.type
       IN /\ \A U \in DOMAIN type_names_'[f] :
               /\ type_names_'[f][U] \in DOMAIN savers_'[f]
               /\ savers_'[f][type_names_'[f][U]] = U
          /\ (/\ last'.op = "save"
              /\ T \in DOMAIN type_names_[f]
              /\ type_names_[f][T] = n)
             => /\ last'.outcome = "ok"
                /\ saved'[f] # <<>>
                /\ oa'[f] = WriteLayer(T, type_names_[f], oa[f], n,
                                       saved'[f][Len(saved'[f])].obj)]_vars

\* Under every name the loader constructs the type the saver downcasts
\* to, and a layer the loader constructs from an archive positioned at
\* such a layer's fields is one the saver under the same name writes.
LoadersMatchSavers ==
    \A f \in active :
       /\ DOMAIN loaders_[f] = DOMAIN savers_[f]
       /\ \A n \in DOMAIN loaders_[f] :
             /\ loaders_[f][n] = savers_[f][n]
             /\ \A o \in {q \in Objs : q.type = loaders_[f][n]} :
                   LET r == load(loaders_[f], n, PositionedInput(f, o), FALSE)
                       l == [type |-> r.handle.type, x |-> r.handle.x]
                   IN /\ r.outcome = "ok"
                      /\ \A w \in save(savers_[f], type_names_[f], n,
                                       NewOutputArchive(f), l) :
                            w.outcome = "ok" /\ w.oa.doc # <<>>

\* C15: under every name n of the registry the loader and the saver are
\* closures over the same type, the type of the most recent registration
\* under n (a registration sets both for its name and leaves the other
\* names alone, no other operation changes either), so what load(n)
\* returns save(n) accepts.
C15_LoaderAndSaverAgree ==
    /\ []LoadersMatchSavers
    /\ [][LET f == TheFormat
          IN IF last'.op = "register"
             THEN /\ loaders_'[f][last'.name] = last'.type
                  /\ savers_'[f][last'.name] = last'.type
                  /\ \A n \in DOMAIN loaders_[f] \ {last'.name} :
                        /\ loaders_'[f][n] = loaders_[f][n]
                        /\ savers_'[f][n] = savers_[f][n]
             ELSE loaders_' = loaders_ /\ savers_' = savers_]_vars

\* Name "a", registered for T1 (whose name it still is), has been
\* registered again for T2: its loader and its saver are now T2's.
C15_Witness ==
    LET f == TheFormat
    IN /\ last.op = "register" /\ last.name = "a" /\ last.type = "T2"
       /\ "T1" \in DOMAIN type_names_[f] /\ type_names_[f]["T1"] = "a"
       /\ loaders_[f]["a"] = "T2" /\ savers_[f]["a"] = "T2"

\* C16: a load that returns a layer has run no destructor and released
\* nothing, and the handle it returns is marked valid; releasing the last
\* handle runs T's destructor once and releases the storage once; a load
\* whose construction fails releases the storage once, runs no destructor
\* and leaves nothing with the caller.
C16_StorageReleasedOnce ==
    [][/\ last'.op = "load" /\ last'.outcome = "ok"
          => /\ last'.dtors = 0 /\ last'.frees = 0
             /\ Len(handles') = Len(handles) + 1
             /\ handles'[Len(handles')].valid
       /\ last'.op = "load" /\ last'.outcome \in {"cereal_exception", "ctor_exception"}
          => /\ last'.dtors = 0 /\ last'.frees = 1
             /\ handles' = handles
       /\ last'.op = "release"
          => /\ last'.dtors = 1 /\ last'.frees = 1
             /\ Len(handles') = Len(handles) - 1]_vars

\* A layer was loaded from the archive and its last handle released.
C16_Witness ==
    /\ last.op = "release" /\ last.dtors = 1 /\ last.frees = 1
    /\ handles = <<>>
    /\ saved[TheFormat] # <<>>

\* C17: start_loading_layer and finish_loading_layer leave a binary input
\* archive as it is; on a JSON input archive start enters one node
\* (or throws and enters none) and finish, inside a node, leaves one, so a
\* finish that follows a start brings the depth back; neither touches an
\* output archive.
C17_HooksFrameOneNode ==
    [][LET f == TheFormat
       IN /\ last'.op \in {"start_loading_layer", "finish_loading_layer"}
             => oa' = oa /\ (f # "json" => ia' = ia /\ last'.outcome = "ok")
          /\ last'.op = "start_loading_layer" /\ f = "json"
             => IF last'.outcome = "ok"
                THEN ia'[f].depth = ia[f].depth + 1
                ELSE ia' = ia
          /\ last'.op = "finish_loading_layer" /\ f = "json" /\ ia[f].depth > 0
             => last'.outcome = "ok" /\ ia'[f].depth = ia[f].depth - 1
          /\ (/\ last.op = "start_loading_layer" /\ last.outcome = "ok"
              /\ last'.op = "finish_loading_layer" /\ f = "json")
             => last'.outcome = "ok" /\ ia'[f].live /\ ia'[f].depth = 0]_vars

\* The JSON input archive is back at the top level past the node that a
\* start entered and a finish left.
C17_Witness ==
    /\ TheFormat = "json"
    /\ last.op = "finish_loading_layer" /\ last.outcome = "ok"
    /\ ia["json"].live /\ ia["json"].depth = 0 /\ ia["json"].idx = 2

====
